---------------------------- MODULE Spec2Model ----------------------------
(***************************************************************************)
(* MiniQueryEngine (src/miniarrow.py): a registry of named Arrow tables    *)
(* and the operations create_table, filter_table, aggregate_table,         *)
(* join_tables, sort_table and group_by.                                   *)
(*                                                                         *)
(* A cell value is a pair <<kind, n>>: <<"int", n>> is the Python int n,   *)
(* <<"str", n>> is the n-th string of a fixed alphabetically ordered list  *)
(* of strings, <<"float", n, d>> is the float n/d, and Null is Arrow's     *)
(* null (None once converted by to_pydict / as_py).                        *)
(***************************************************************************)
EXTENDS Integers, Sequences, FiniteSets

VARIABLES tables, last

vars == <<tables, last>>

\* ------------------------------------------------------------------ bounds
MaxCreateRows == 2
MaxRows == 2
MaxJoinRows == 2

\* ------------------------------------------------------------------ values
IntV(n) == <<"int", n>>
StrV(n) == <<"str", n>>
FloatV(n, d) == <<"float", n, d>>
Null == <<"null", 0>>

SeqsUpTo(S, n) == UNION {[1..k -> S] : k \in 0..n}

Range(s) == {s[i] : i \in DOMAIN s}

\* ------------------------------------------------- pa.Table.from_pydict
\* Arrow's type inference for one Python list: an empty list has type
\* null, a list of ints int64, a list of strs string; a list mixing ints
\* and strs cannot be converted.
InferType(values) ==
    IF values = <<>> THEN "null"
    ELSE IF \A i \in DOMAIN values : values[i][1] = "int" THEN "int64"
    ELSE IF \A i \in DOMAIN values : values[i][1] = "str" THEN "string"
    ELSE "invalid"

\* len(col) for col in data.values(), as a set (line 38).
Lengths(data) == {Len(data[i].values) : i \in DOMAIN data}

\* Whether pa.Table.from_pydict(data) raises ArrowInvalid: a column of
\* mixed types, or columns of different lengths.
FromPydictRaises(data) ==
    \/ \E i \in DOMAIN data : InferType(data[i].values) = "invalid"
    \/ Cardinality(Lengths(data)) > 1

from_pydict_counts_columns(data) ==
    [columns |-> [i \in DOMAIN data |->
                    [name |-> data[i].name,
                     type |-> InferType(data[i].values),
                     values |-> data[i].values]],
     num_rows |-> Len(data)]

\* The table pa.Table.from_pydict(data) builds: one typed column per key,
\* in the dict's order; num_rows is the length of the first column.
from_pydict(data) ==
    [columns |-> [i \in DOMAIN data |->
                    [name |-> data[i].name,
                     type |-> InferType(data[i].values),
                     values |-> data[i].values]],
     num_rows |-> Len(data[1].values)]

\* self.tables[name] = table
Register(name, table) ==
    [n \in DOMAIN tables \cup {name} |-> IF n = name THEN table ELSE tables[n]]

\* ------------------------------------------------------------ create_table
\* The exception create_table(name, data) raises, or "ok".
CreateStatus(name, data) ==
    IF name = "" THEN "ValueError:name"
    ELSE IF data = <<>> THEN "ValueError:data"
    ELSE IF Cardinality(Lengths(data)) > 1 THEN "TypeError:length"
    ELSE IF FromPydictRaises(data) THEN "ArrowInvalid"
    ELSE "ok"

\* What last records of a call of create_table: its name, what it raised,
\* whether the name was registered before the call, and the data of a call
\* that returned.
CreateCall(name, data, st) ==
    [op |-> "create_table", name |-> name, status |-> st,
     replaced |-> name \in DOMAIN tables,
     data |-> IF st = "ok" THEN data ELSE <<>>]

create_table_no_replace(name, data) ==
    LET st == CreateStatus(name, data) IN
    /\ tables' = IF st = "ok" /\ name \notin DOMAIN tables
                 THEN Register(name, from_pydict(data)) ELSE tables
    /\ last' = CreateCall(name, data, st)

create_table_store_first(name, data) ==
    LET st == CreateStatus(name, data) IN
    /\ tables' = IF st \in {"ok", "TypeError:length", "ArrowInvalid"}
                 THEN Register(name, from_pydict(data)) ELSE tables
    /\ last' = CreateCall(name, data, st)

\* One call of create_table: the table is registered only when nothing
\* was raised (line 42 is the last statement).
create_table(name, data) ==
    LET st == CreateStatus(name, data) IN
    /\ tables' = IF st = "ok" THEN Register(name, from_pydict(data)) ELSE tables
    /\ last' = CreateCall(name, data, st)

\* ------------------------------------------------------- table helpers
ColumnNames(t) == [i \in DOMAIN t.columns |-> t.columns[i].name]

HasColumn(t, c) == \E i \in DOMAIN t.columns : t.columns[i].name = c

\* table[column_name]
Column(t, c) == t.columns[CHOOSE i \in DOMAIN t.columns : t.columns[i].name = c]

Indices(n) == [i \in 1..n |-> i]

\* table.take(indices): the rows at indices, in that order.
Take(t, idx) ==
    [columns |-> [c \in DOMAIN t.columns |->
                    [name |-> t.columns[c].name,
                     type |-> t.columns[c].type,
                     values |-> [k \in DOMAIN idx |-> t.columns[c].values[idx[k]]]]],
     num_rows |-> Len(idx)]

\* Table.to_pydict(): the dict name -> list of values.  A dict keeps one
\* entry per name: at the place of the name's first column, with the values
\* of its last column.  The column types are dropped.
to_pydict(t) ==
    LET n == Len(t.columns)
        IsFirst(i) == \A j \in 1..(i - 1) : t.columns[j].name # t.columns[i].name
        LastOf(i) == CHOOSE j \in i..n :
                        /\ t.columns[j].name = t.columns[i].name
                        /\ \A k \in (j + 1)..n : t.columns[k].name # t.columns[i].name
        firsts == SelectSeq(Indices(n), IsFirst)
    IN [k \in DOMAIN firsts |->
          [name |-> t.columns[firsts[k]].name,
           values |-> t.columns[LastOf(firsts[k])].values]]

\* ------------------------------------------------------------ filter_table
Conditions == {"==", ">", "<", ">=", "<=", "!="}

\* pa.array([value], type=column.type) does not raise (lines 73-78): an int
\* converts to int64, a str to string, nothing converts to null.  A float
\* with a fraction converts to neither ("Float value was truncated").
Coercible(value, type) ==
    \/ type = "int64" /\ value[1] = "int"
    \/ type = "string" /\ value[1] = "str"

\* pc.equal, pc.greater, ... on two values of one type (lines 80-87); strings
\* compare in alphabetical order, which is the order of their numbers.
CompareSwapped(condition, a, b) ==
    CASE condition = "==" -> a[2] = b[2]
      [] condition = ">" -> a[2] < b[2]
      [] condition = "<" -> a[2] > b[2]
      [] condition = ">=" -> a[2] <= b[2]
      [] condition = "<=" -> a[2] >= b[2]
      [] condition = "!=" -> a[2] # b[2]

Compare(condition, a, b) ==
    CASE condition = "==" -> a[2] = b[2]
      [] condition = ">" -> a[2] > b[2]
      [] condition = "<" -> a[2] < b[2]
      [] condition = ">=" -> a[2] >= b[2]
      [] condition = "<=" -> a[2] <= b[2]
      [] condition = "!=" -> a[2] # b[2]

\* mask = conditions[condition](column, value)
Mask(column, condition, value) ==
    [i \in DOMAIN column.values |-> Compare(condition, column.values[i], value)]

\* table.filter(mask): the rows whose mask is true, in the table's order.
FilterRows(t, mask) ==
    LET F[i \in 0..Len(mask)] ==
            IF i = 0 THEN <<>>
            ELSE IF mask[i] THEN Append(F[i - 1], i) ELSE F[i - 1]
    IN Take(t, F[Len(mask)])

FilterStatus(table_name, column_name, condition, value) ==
    IF table_name \notin DOMAIN tables THEN "ValueError:table"
    ELSE IF ~HasColumn(tables[table_name], column_name) THEN "ValueError:column"
    ELSE IF ~Coercible(value, Column(tables[table_name], column_name).type)
         THEN "TypeError:value"
    ELSE IF condition \notin Conditions THEN "ValueError:condition"
    ELSE "ok"

FilterCall(table_name, column_name, condition, value, st, res) ==
    [op |-> "filter_table", table_name |-> table_name,
     column_name |-> column_name, condition |-> condition, value |-> value,
     status |-> st, result |-> res]

filter_table_registers(table_name, column_name, condition, value) ==
    LET st == FilterStatus(table_name, column_name, condition, value)
        t == tables[table_name]
        out == FilterRows(t, Mask(Column(t, column_name), condition, value))
    IN /\ last' = FilterCall(table_name, column_name, condition, value, st,
                             IF st = "ok" THEN to_pydict(out) ELSE <<>>)
       /\ tables' = IF st = "ok" THEN Register(table_name, out) ELSE tables

filter_table(table_name, column_name, condition, value) ==
    LET st == FilterStatus(table_name, column_name, condition, value)
        t == tables[table_name]
        out == FilterRows(t, Mask(Column(t, column_name), condition, value))
    IN /\ last' = FilterCall(table_name, column_name, condition, value, st,
                             IF st = "ok" THEN to_pydict(out) ELSE <<>>)
       /\ UNCHANGED tables

\* --------------------------------------------------------- aggregate_table
AggFuncs == {"sum", "mean", "min", "max", "count"}

SumOf(values) ==
    LET S[i \in 0..Len(values)] ==
            IF i = 0 THEN 0 ELSE S[i - 1] + values[i][2]
    IN S[Len(values)]

MinOf(values) ==
    CHOOSE v \in Range(values) : \A w \in Range(values) : v[2] <= w[2]

MaxOf(values) ==
    CHOOSE v \in Range(values) : \A w \in Range(values) : v[2] >= w[2]

\* functions[agg_func](column).as_py() (lines 124-130, 146-147).  Arrow's
\* sum, mean, min and max of no values are null, which as_py() turns into
\* None; count is the Python len of the column.
AggValue(agg_func, values) ==
    CASE agg_func = "count" -> IntV(Len(values))
      [] agg_func = "sum" ->
            IF values = <<>> THEN Null ELSE IntV(SumOf(values))
      [] agg_func = "mean" ->
            IF values = <<>> THEN Null ELSE FloatV(SumOf(values), Len(values))
      [] agg_func = "min" -> IF values = <<>> THEN Null ELSE MinOf(values)
      [] agg_func = "max" -> IF values = <<>> THEN Null ELSE MaxOf(values)

\* pa.types.is_integer(type) or pa.types.is_floating(type)
IsNumeric(type) == type = "int64"

AggregateStatus(table_name, column_name, agg_func) ==
    IF table_name \notin DOMAIN tables THEN "ValueError:table"
    ELSE IF ~HasColumn(tables[table_name], column_name) THEN "ValueError:column"
    ELSE IF agg_func \notin AggFuncs THEN "ValueError:function"
    ELSE IF /\ agg_func \in {"sum", "mean"}
            /\ ~IsNumeric(Column(tables[table_name], column_name).type)
         THEN "TypeError:numeric"
    ELSE "ok"

aggregate_table(table_name, column_name, agg_func) ==
    LET st == AggregateStatus(table_name, column_name, agg_func) IN
    /\ last' = [op |-> "aggregate_table", table_name |-> table_name,
                column_name |-> column_name, agg_func |-> agg_func,
                status |-> st,
                result |-> IF st = "ok"
                           THEN AggValue(agg_func,
                                   Column(tables[table_name], column_name).values)
                           ELSE Null]
    /\ UNCHANGED tables

\* -------------------------------------------------------------- sort_table
\* Whether the value a sorts strictly before b in the direction asked.
Before(a, b, ascending) == IF ascending THEN a[2] < b[2] ELSE a[2] > b[2]

SortIndicesTiesReversed(values, ascending) ==
    LET Insert(s, i) ==
            LET IsBefore(j) == Before(values[j], values[i], ascending)
                IsNotBefore(j) == ~Before(values[j], values[i], ascending)
            IN SelectSeq(s, IsBefore) \o <<i>> \o SelectSeq(s, IsNotBefore)
        S[k \in 0..Len(values)] == IF k = 0 THEN <<>> ELSE Insert(S[k - 1], k)
    IN S[Len(values)]

\* pc.sort_indices, which Table.sort_by calls: the indices of a stable
\* sort.  Each row is placed after every earlier row that does not sort
\* strictly after it.
SortIndices(values, ascending) ==
    LET Insert(s, i) ==
            LET IsAfter(j) == Before(values[i], values[j], ascending)
                IsNotAfter(j) == ~Before(values[i], values[j], ascending)
            IN SelectSeq(s, IsNotAfter) \o <<i>> \o SelectSeq(s, IsAfter)
        S[k \in 0..Len(values)] == IF k = 0 THEN <<>> ELSE Insert(S[k - 1], k)
    IN S[Len(values)]

\* sort_by raises for a column the table does not have.
SortStatus(table_name, column_name) ==
    IF table_name \notin DOMAIN tables THEN "ValueError:table"
    ELSE IF ~HasColumn(tables[table_name], column_name) THEN "ArrowError:column"
    ELSE "ok"

sort_table(table_name, column_name, ascending) ==
    LET st == SortStatus(table_name, column_name)
        t == tables[table_name]
    IN /\ last' = [op |-> "sort_table", table_name |-> table_name,
                   column_name |-> column_name, ascending |-> ascending,
                   status |-> st,
                   result |-> IF st = "ok"
                              THEN to_pydict(Take(t,
                                      SortIndices(Column(t, column_name).values,
                                                  ascending)))
                              ELSE <<>>]
       /\ UNCHANGED tables

\* ---------------------------------------------------------------- group_by
Permutations(n) ==
    {p \in [1..n -> 1..n] : \A i, j \in 1..n : p[i] = p[j] => i = j}

\* The distinct values of a column, in the order of their first rows.
GroupKeys(values) ==
    LET G[i \in 0..Len(values)] ==
            IF i = 0 THEN <<>>
            ELSE IF values[i] \in Range(G[i - 1]) THEN G[i - 1]
            ELSE Append(G[i - 1], values[i])
    IN G[Len(values)]

\* The values of agg_values in the rows whose group value is key.
GroupValues(group_values, agg_values, key) ==
    LET InGroup(i) == group_values[i] = key
        rows == SelectSeq(Indices(Len(group_values)), InGroup)
    IN [k \in DOMAIN rows |-> agg_values[rows[k]]]

\* Arrow has no hash_sum or hash_mean kernel for strings.
GroupByStatus(table_name, group_column, agg_column, agg_func) ==
    IF table_name \notin DOMAIN tables THEN "ValueError:table"
    ELSE IF agg_func \notin AggFuncs THEN "ValueError:function"
    ELSE IF \/ ~HasColumn(tables[table_name], group_column)
            \/ ~HasColumn(tables[table_name], agg_column)
         THEN "ArrowError:column"
    ELSE IF /\ agg_func \in {"sum", "mean"}
            /\ Column(tables[table_name], agg_column).type = "string"
         THEN "ArrowNotImplementedError"
    ELSE "ok"

\* table.group_by(group_column).aggregate([(agg_column, agg_func)]): one row
\* per distinct group value, a column <agg_column>_<agg_func> and the group
\* column.  Arrow runs it with use_threads=True, for which it guarantees no
\* order of the rows: order is the order the run produced.  Whether the
\* group column comes first depends on the version of Arrow: keys_first.
GroupTable(t, group_column, agg_column, agg_func, order, keys_first) ==
    LET gv == Column(t, group_column).values
        av == Column(t, agg_column).values
        keys == GroupKeys(gv)
        key_col == [name |-> group_column,
                    type |-> Column(t, group_column).type,
                    values |-> [k \in DOMAIN keys |-> keys[order[k]]]]
        agg_col == [name |-> agg_column \o "_" \o agg_func,
                    type |-> "aggregate",
                    values |-> [k \in DOMAIN keys |->
                                  AggValue(agg_func,
                                           GroupValues(gv, av, keys[order[k]]))]]
    IN [columns |-> IF keys_first THEN <<key_col, agg_col>>
                    ELSE <<agg_col, key_col>>,
        num_rows |-> Len(keys)]

NumGroups(table_name, group_column, st) ==
    IF st = "ok"
    THEN Len(GroupKeys(Column(tables[table_name], group_column).values))
    ELSE 0

group_by(table_name, group_column, agg_column, agg_func) ==
    LET st == GroupByStatus(table_name, group_column, agg_column, agg_func) IN
    \E order \in Permutations(NumGroups(table_name, group_column, st)),
       keys_first \in BOOLEAN :
        /\ last' = [op |-> "group_by", table_name |-> table_name,
                    group_column |-> group_column, agg_column |-> agg_column,
                    agg_func |-> agg_func, status |-> st,
                    result |-> IF st = "ok"
                               THEN to_pydict(GroupTable(tables[table_name],
                                       group_column, agg_column, agg_func,
                                       order, keys_first))
                               ELSE <<>>]
        /\ UNCHANGED tables

\* -------------------------------------------------------------- join_tables
\* supported_join_types (line 176)
JoinTypes == {"inner", "left", "right", "full outer"}

\* The join types Table.join knows; for any other it raises ValueError.
ArrowJoinTypes == {"left semi", "right semi", "left anti", "right anti",
                   "inner", "left outer", "right outer", "full outer"}

\* Arrow's hash join takes no column of type null, and only key columns of
\* the same type on both sides.
JoinTypesOk(left, right, left_keys, right_keys) ==
    /\ \A i \in DOMAIN left.columns : left.columns[i].type # "null"
    /\ \A i \in DOMAIN right.columns : right.columns[i].type # "null"
    /\ \A k \in DOMAIN left_keys :
          Column(left, left_keys[k]).type = Column(right, right_keys[k]).type

JoinStatus(left_table, right_table, left_keys, right_keys, join_type) ==
    IF left_table \notin DOMAIN tables \/ right_table \notin DOMAIN tables
    THEN "ValueError:table"
    ELSE IF Len(left_keys) # Len(right_keys) THEN "ValueError:keys"
    ELSE IF join_type \notin JoinTypes THEN "ValueError:join_type"
    ELSE IF join_type \notin ArrowJoinTypes THEN "ValueError:arrow_join_type"
    ELSE IF \/ \E k \in DOMAIN left_keys : ~HasColumn(tables[left_table], left_keys[k])
            \/ \E k \in DOMAIN right_keys : ~HasColumn(tables[right_table], right_keys[k])
         THEN "ArrowError:column"
    ELSE IF ~JoinTypesOk(tables[left_table], tables[right_table], left_keys, right_keys)
         THEN "ArrowInvalid:type"
    ELSE "ok"

\* The composite key of row i.
KeyOf(t, keys, i) == [k \in DOMAIN keys |-> Column(t, keys[k]).values[i]]

JoinRowsFirstMatch(left, right, left_keys, right_keys, join_type) ==
    LET nl == left.num_rows
        nr == right.num_rows
        MatchesOf(i) ==
            LET IsMatch(j) == KeyOf(left, left_keys, i) = KeyOf(right, right_keys, j)
            IN SelectSeq(Indices(nr), IsMatch)
        RowsOf(i) ==
            LET matches == MatchesOf(i) IN
            IF matches # <<>>
            THEN << <<i, matches[1]>> >>
            ELSE IF join_type \in {"left outer", "full outer"} THEN << <<i, 0>> >>
            ELSE <<>>
        P[i \in 0..nl] == IF i = 0 THEN <<>> ELSE P[i - 1] \o RowsOf(i)
        Unmatched(j) ==
            \A i \in 1..nl : KeyOf(left, left_keys, i) # KeyOf(right, right_keys, j)
        rest == SelectSeq(Indices(nr), Unmatched)
    IN P[nl] \o (IF join_type \in {"right outer", "full outer"}
                 THEN [k \in DOMAIN rest |-> <<0, rest[k]>>]
                 ELSE <<>>)

\* The rows of the hash join, as pairs <<left row, right row>> with 0 for
\* no row: for each left row its matches in the right table's order (or,
\* in a left outer or full outer join, the row alone), and then, in a right
\* outer or full outer join, the right rows that matched no left row.
JoinRows(left, right, left_keys, right_keys, join_type) ==
    LET nl == left.num_rows
        nr == right.num_rows
        MatchesOf(i) ==
            LET IsMatch(j) == KeyOf(left, left_keys, i) = KeyOf(right, right_keys, j)
            IN SelectSeq(Indices(nr), IsMatch)
        RowsOf(i) ==
            LET matches == MatchesOf(i) IN
            IF matches # <<>>
            THEN [k \in DOMAIN matches |-> <<i, matches[k]>>]
            ELSE IF join_type \in {"left outer", "full outer"} THEN << <<i, 0>> >>
            ELSE <<>>
        P[i \in 0..nl] == IF i = 0 THEN <<>> ELSE P[i - 1] \o RowsOf(i)
        Unmatched(j) ==
            \A i \in 1..nl : KeyOf(left, left_keys, i) # KeyOf(right, right_keys, j)
        rest == SelectSeq(Indices(nr), Unmatched)
    IN P[nl] \o (IF join_type \in {"right outer", "full outer"}
                 THEN [k \in DOMAIN rest |-> <<0, rest[k]>>]
                 ELSE <<>>)

\* The columns of the join (coalesce_keys=True, no suffixes): the left
\* columns then the right columns, without the right key columns (inner,
\* left outer, full outer) or without the left key columns (right outer).
\* In a full outer join a left key column is coalesced with its right key
\* column.  Columns of the same name keep their names.
JoinColumns(left, right, left_keys, right_keys, join_type) ==
    LET IsLeftOut(c) == join_type # "right outer" \/ c \notin Range(left_keys)
        IsRightOut(c) == join_type = "right outer" \/ c \notin Range(right_keys)
        RightKeyOf(c) ==
            right_keys[CHOOSE k \in DOMAIN left_keys :
                          left_keys[k] = c /\ \A m \in 1..(k - 1) : left_keys[m] # c]
        lc == SelectSeq(ColumnNames(left), IsLeftOut)
        rc == SelectSeq(ColumnNames(right), IsRightOut)
    IN [k \in DOMAIN lc |->
          [side |-> "left", name |-> lc[k],
           coalesce |-> IF join_type = "full outer" /\ lc[k] \in Range(left_keys)
                        THEN RightKeyOf(lc[k]) ELSE ""]]
       \o [k \in DOMAIN rc |-> [side |-> "right", name |-> rc[k], coalesce |-> ""]]

\* left.join(right, keys=left_keys, right_keys=right_keys, join_type=...):
\* a cell of a side that has no row is null.
JoinTable(left, right, left_keys, right_keys, join_type) ==
    LET rows == JoinRows(left, right, left_keys, right_keys, join_type)
        cols == JoinColumns(left, right, left_keys, right_keys, join_type)
        Cell(col, row) ==
            IF col.side = "left"
            THEN IF row[1] # 0 THEN Column(left, col.name).values[row[1]]
                 ELSE IF col.coalesce # ""
                      THEN Column(right, col.coalesce).values[row[2]]
                 ELSE Null
            ELSE IF row[2] # 0 THEN Column(right, col.name).values[row[2]]
                 ELSE Null
    IN [columns |-> [c \in DOMAIN cols |->
                       [name |-> cols[c].name,
                        type |-> IF cols[c].side = "left"
                                 THEN Column(left, cols[c].name).type
                                 ELSE Column(right, cols[c].name).type,
                        values |-> [k \in DOMAIN rows |-> Cell(cols[c], rows[k])]]],
        num_rows |-> Len(rows)]

join_tables(left_table, right_table, left_keys, right_keys, join_type) ==
    LET st == JoinStatus(left_table, right_table, left_keys, right_keys, join_type)
    IN /\ last' = [op |-> "join_tables", left_table |-> left_table,
                   right_table |-> right_table, left_keys |-> left_keys,
                   right_keys |-> right_keys, join_type |-> join_type,
                   status |-> st,
                   result |-> IF st = "ok"
                              THEN to_pydict(JoinTable(tables[left_table],
                                      tables[right_table], left_keys, right_keys,
                                      join_type))
                              ELSE <<>>]
       /\ UNCHANGED tables

\* ------------------------------------------------ inputs of create_table
CreateNames == {"", "L", "R"}
CreateElems == {IntV(1), StrV(1)}
CreateColumns == SeqsUpTo(CreateElems, MaxCreateRows)

\* dicts with no key, with the key "id", and with the keys "id", "value".
CreateData ==
    {<<>>}
    \cup {<<[name |-> "id", values |-> a]>> : a \in CreateColumns}
    \cup {<<[name |-> "id", values |-> a], [name |-> "value", values |-> b]>> :
            a \in CreateColumns, b \in CreateColumns}

NoCall == [op |-> "none", status |-> "ok"]

\* __init__: self.tables = {}
InitCreate ==
    /\ tables = << >>
    /\ last = NoCall

NextCreate == \E name \in CreateNames, data \in CreateData : create_table(name, data)

SpecCreate == InitCreate /\ [][NextCreate]_vars

\* ------------------------------------------- the operators on one table
\* The tables create_table can register from lists of at most MaxRows of
\* these values, under the keys "id" or "id" and "value".
OpsElems == {IntV(1), IntV(2), StrV(1)}
OpsColumns == SeqsUpTo(OpsElems, MaxRows)

OpsData ==
    {d \in {<<[name |-> "id", values |-> a]>> : a \in OpsColumns}
           \cup {<<[name |-> "id", values |-> a], [name |-> "value", values |-> b]>> :
                   a \in OpsColumns, b \in OpsColumns} :
        CreateStatus("T", d) = "ok"}

\* After create_table("T", d).
InitOps ==
    /\ tables \in {[n \in {"T"} |-> from_pydict(d)] : d \in OpsData}
    /\ last = NoCall

\* "X" is the name of no table.
OpsTableNames == {"T", "X"}
OpsColumnNames == {"id", "value"}

FilterStep ==
    \E table_name \in OpsTableNames, column_name \in OpsColumnNames,
       condition \in Conditions \cup {"like"},
       value \in OpsElems \cup {FloatV(3, 2)} :
        filter_table(table_name, column_name, condition, value)

AggregateStep ==
    \E table_name \in OpsTableNames, column_name \in OpsColumnNames,
       agg_func \in AggFuncs \cup {"median"} :
        aggregate_table(table_name, column_name, agg_func)

SortStep ==
    \E table_name \in OpsTableNames, column_name \in OpsColumnNames,
       ascending \in BOOLEAN :
        sort_table(table_name, column_name, ascending)

GroupByStep ==
    \E table_name \in OpsTableNames, group_column \in OpsColumnNames,
       agg_column \in OpsColumnNames, agg_func \in AggFuncs \cup {"median"} :
        group_by(table_name, group_column, agg_column, agg_func)

SpecFilter == InitOps /\ [][FilterStep]_vars

SpecAggregate == InitOps /\ [][AggregateStep]_vars

SpecSort == InitOps /\ [][SortStep]_vars

SpecGroupBy == InitOps /\ [][GroupByStep]_vars

\* ------------------------------------------------ the join of two tables
JoinElems == {IntV(1), IntV(2)}
JoinColumnValues == SeqsUpTo(JoinElems, MaxJoinRows)

JoinData ==
    {d \in {<<[name |-> "id", values |-> a], [name |-> "value", values |-> b]>> :
              a \in JoinColumnValues, b \in JoinColumnValues} :
        CreateStatus("L", d) = "ok"}

KeyLists == {<<"id">>, <<"id", "value">>}

\* After create_table("L", l) and create_table("R", r).
InitJoin ==
    /\ tables \in {[n \in {"L", "R"} |-> IF n = "L" THEN from_pydict(l) ELSE from_pydict(r)] :
                     l \in JoinData, r \in JoinData}
    /\ last = NoCall

\* Key lists of equal length, and a left key list shorter than the right.
JoinStep ==
    \E right_keys \in KeyLists :
        \E left_keys \in {right_keys, <<"id">>},
           join_type \in JoinTypes \cup {"left outer"} :
            join_tables("L", "R", left_keys, right_keys, join_type)

SpecJoin == InitJoin /\ [][JoinStep]_vars

\* ------------------------------------------------- the engine of __main__
\* The data of left_table and right_table (lines 246-259), and a dict whose
\* lists differ in length.
left_data ==
    <<[name |-> "id", values |-> <<IntV(1), IntV(2), IntV(3)>>],
      [name |-> "value", values |-> <<IntV(10), IntV(20), IntV(30)>>]>>

right_data ==
    <<[name |-> "id", values |-> <<IntV(2), IntV(3), IntV(4)>>],
      [name |-> "value", values |-> <<IntV(200), IntV(300), IntV(400)>>]>>

ragged_data ==
    <<[name |-> "id", values |-> <<IntV(1)>>],
      [name |-> "value", values |-> <<>>]>>

MainNames == {"left_table", "right_table"}

CreateMain ==
    \E name \in MainNames, data \in {left_data, right_data, ragged_data} :
        create_table(name, data)

FilterMain ==
    \E table_name \in MainNames, column_name \in {"id", "value", "price"},
       condition \in {">", "==", "like"}, value \in {IntV(15), StrV(1)} :
        filter_table(table_name, column_name, condition, value)

AggregateMain ==
    \E table_name \in MainNames, column_name \in {"value", "price"},
       agg_func \in {"sum", "max", "median"} :
        aggregate_table(table_name, column_name, agg_func)

SortMain ==
    \E table_name \in MainNames, column_name \in {"value", "price"},
       ascending \in BOOLEAN :
        sort_table(table_name, column_name, ascending)

GroupByMain ==
    \E table_name \in MainNames, agg_column \in {"value", "price"},
       agg_func \in {"sum", "median"} :
        group_by(table_name, "id", agg_column, agg_func)

JoinMain ==
    \E left_table \in MainNames, right_table \in MainNames,
       left_keys \in KeyLists, join_type \in JoinTypes \cup {"left outer"} :
        join_tables(left_table, right_table, left_keys, <<"id">>, join_type)

\* engine = MiniQueryEngine()
Init ==
    /\ tables = << >>
    /\ last = NoCall

Next ==
    \/ CreateMain
    \/ FilterMain
    \/ AggregateMain
    \/ SortMain
    \/ GroupByMain
    \/ JoinMain

Spec == Init /\ [][Next]_vars

\* ------------------------------------------------- claims: create_table
\* C1: every registered table satisfies the shape invariant: all of its
\* columns have the same length, which is the table's row count (>= 0).
C1_ShapeInvariant ==
    \A n \in DOMAIN tables :
        /\ tables[n].num_rows >= 0
        /\ \A i \in DOMAIN tables[n].columns :
              Len(tables[n].columns[i].values) = tables[n].num_rows

\* A two-column table with rows is registered after a call that failed.
C1_Witness ==
    /\ last.op = "create_table" /\ last.status = "TypeError:length"
    /\ \E n \in DOMAIN tables :
          Len(tables[n].columns) = 2 /\ tables[n].num_rows = 2

\* C2: a create_table call that raises leaves the registry as it was:
\* nothing added, removed or replaced.
C2_FailedCreateKeepsRegistry ==
    [][(last'.op = "create_table" /\ last'.status # "ok") => tables' = tables]_vars

\* A call raised by from_pydict, on a name that is registered.
C2_Witness ==
    /\ last.op = "create_table"
    /\ last.status = "ArrowInvalid"
    /\ last.name \in DOMAIN tables

\* C10: a create_table call that returns registers the table built from
\* its data under its name, replacing a table registered under that name,
\* and leaves every other name as it was.
C10_CreateRegisters ==
    [][(last'.op = "create_table" /\ last'.status = "ok") =>
         /\ last'.name \in DOMAIN tables'
         /\ LET t == tables'[last'.name] IN
              /\ Len(t.columns) = Len(last'.data)
              /\ \A i \in DOMAIN t.columns :
                    /\ t.columns[i].name = last'.data[i].name
                    /\ t.columns[i].values = last'.data[i].values
         /\ \A m \in (DOMAIN tables \cup DOMAIN tables') \ {last'.name} :
              /\ m \in DOMAIN tables /\ m \in DOMAIN tables'
              /\ tables'[m] = tables[m]]_vars

\* A successful call has replaced a table while another name is registered.
C10_Witness ==
    /\ last.op = "create_table" /\ last.status = "ok" /\ last.replaced
    /\ DOMAIN tables = {"L", "R"}

\* -------------------------------------------------- claims: the operators
C3_OperatorNames ==
    {"filter_table", "aggregate_table", "sort_table", "group_by", "join_tables"}

\* C3: a call of filter, aggregate, sort, group_by or join, whether it
\* returns or raises, leaves the registry as it was: the same names, each
\* with the same table.
C3_OperatorsKeepRegistry ==
    [][last'.op \in C3_OperatorNames => tables' = tables]_vars

\* The full outer join of __main__ has returned its four rows, with both
\* tables of __main__ registered.
C3_Witness ==
    /\ DOMAIN tables = MainNames
    /\ last.op = "join_tables" /\ last.status = "ok"
    /\ last.join_type = "full outer"
    /\ Len(last.result[1].values) = 4

\* What the six conditions mean, in terms of the order alone.
C4_Satisfies(condition, a, b) ==
    CASE condition = "<" -> a[2] < b[2]
      [] condition = ">" -> b[2] < a[2]
      [] condition = "<=" -> ~(b[2] < a[2])
      [] condition = ">=" -> ~(a[2] < b[2])
      [] condition = "==" -> ~(a[2] < b[2]) /\ ~(b[2] < a[2])
      [] condition = "!=" -> a[2] < b[2] \/ b[2] < a[2]

\* A value of the column's own type: an int for an int64 column, a str for
\* a string column.
C4_Compatible(value, type) ==
    (type = "int64" /\ value[1] = "int") \/ (type = "string" /\ value[1] = "str")

C5_EmptyAggregate ==
    (/\ last.op = "aggregate_table"
     /\ last.table_name \in DOMAIN tables
     /\ tables[last.table_name].num_rows = 0
     /\ HasColumn(tables[last.table_name], last.column_name)
     /\ last.agg_func \in AggFuncs)
    => IF last.agg_func \in {"sum", "count"}
       THEN last.status = "ok" /\ last.result = IntV(0)
       ELSE last.status = "EmptyAggregation"

\* C6: for a registered table and a column of it, sort returns a
\* permutation of the rows, the same in every column, ordered by the column
\* in the direction asked, rows of equal value keeping their order.
C6_SortStable ==
    (/\ last.op = "sort_table"
     /\ last.table_name \in DOMAIN tables
     /\ HasColumn(tables[last.table_name], last.column_name))
    => LET t == tables[last.table_name]
           key == Column(t, last.column_name).values
       IN /\ last.status = "ok"
          /\ Len(last.result) = Len(t.columns)
          /\ \E p \in Permutations(t.num_rows) :
                /\ \A c \in DOMAIN t.columns :
                      /\ last.result[c].name = t.columns[c].name
                      /\ Len(last.result[c].values) = t.num_rows
                      /\ \A k \in 1..t.num_rows :
                            last.result[c].values[k] = t.columns[c].values[p[k]]
                /\ \A k, m \in 1..t.num_rows :
                      k < m =>
                        /\ IF last.ascending
                           THEN key[p[k]][2] <= key[p[m]][2]
                           ELSE key[p[k]][2] >= key[p[m]][2]
                        /\ key[p[k]] = key[p[m]] => p[k] < p[m]

\* A descending sort of two rows of equal value, which differ in the other
\* column.
C6_Witness ==
    /\ last.op = "sort_table" /\ last.status = "ok" /\ ~last.ascending
    /\ last.column_name = "id"
    /\ tables[last.table_name].num_rows = 2
    /\ Len(last.result) = 2
    /\ last.result[1].values[1] = last.result[1].values[2]
    /\ last.result[2].values[1] # last.result[2].values[2]

\* C7: group_by returns two columns, the distinct values of group_column
\* and then agg_func of agg_column over the rows of each value, one row per
\* distinct value, in the order of the values' first rows.
C7_GroupByFirstOccurrence ==
    (last.op = "group_by" /\ last.status = "ok")
    => LET t == tables[last.table_name]
           gv == Column(t, last.group_column).values
           av == Column(t, last.agg_column).values
           distinct == Range(gv)
           First(v) == CHOOSE i \in DOMAIN gv :
                          gv[i] = v /\ \A j \in 1..(i - 1) : gv[j] # v
       IN /\ Len(last.result) = 2
          /\ Len(last.result[1].values) = Cardinality(distinct)
          /\ Len(last.result[2].values) = Cardinality(distinct)
          /\ Range(last.result[1].values) = distinct
          /\ \A k, m \in DOMAIN last.result[1].values :
                k < m => First(last.result[1].values[k]) < First(last.result[1].values[m])
          /\ \A k \in DOMAIN last.result[1].values :
                last.result[2].values[k] =
                    AggValue(last.agg_func,
                             GroupValues(gv, av, last.result[1].values[k]))

\* ------------------------------------------------------- claims: the join
\* Whether left row i and right row j have equal composite keys.
C8_KeysEqual(left, right, left_keys, right_keys, i, j) ==
    \A k \in DOMAIN left_keys :
        Column(left, left_keys[k]).values[i] = Column(right, right_keys[k]).values[j]

C8_Pairs(left, right, left_keys, right_keys) ==
    {ij \in (1..left.num_rows) \X (1..right.num_rows) :
        C8_KeysEqual(left, right, left_keys, right_keys, ij[1], ij[2])}

C8_UnmatchedLeft(left, right, left_keys, right_keys) ==
    {i \in 1..left.num_rows :
        \A j \in 1..right.num_rows :
            ~C8_KeysEqual(left, right, left_keys, right_keys, i, j)}

C8_UnmatchedRight(left, right, left_keys, right_keys) ==
    {j \in 1..right.num_rows :
        \A i \in 1..left.num_rows :
            ~C8_KeysEqual(left, right, left_keys, right_keys, i, j)}

\* C8: the inner join has one row per pair of a left row and a right row
\* of equal composite keys, and the full outer join on the same keys has
\* that many rows plus one per left row without a match plus one per right
\* row without a match.
C8_JoinRowCount ==
    (last.op = "join_tables" /\ last.status = "ok")
    => LET left == tables[last.left_table]
           right == tables[last.right_table]
           pairs == Cardinality(C8_Pairs(left, right, last.left_keys, last.right_keys))
           ul == Cardinality(C8_UnmatchedLeft(left, right, last.left_keys, last.right_keys))
           ur == Cardinality(C8_UnmatchedRight(left, right, last.left_keys, last.right_keys))
       IN /\ last.join_type \in {"inner", "full outer"}
          /\ \A c \in DOMAIN last.result :
                Len(last.result[c].values) =
                    IF last.join_type = "inner" THEN pairs ELSE pairs + ul + ur

\* A full outer join of a left table whose two rows share their id with one
\* right row, the other right row matching nothing: three rows.
C8_Witness ==
    /\ last.op = "join_tables" /\ last.status = "ok"
    /\ last.join_type = "full outer" /\ last.left_keys = <<"id">>
    /\ last.right_keys = <<"id">>
    /\ Column(tables["L"], "id").values = <<IntV(1), IntV(1)>>
    /\ Column(tables["R"], "id").values = <<IntV(1), IntV(2)>>
    /\ Len(last.result[1].values) = 3

\* The value that stands for an absent value of a type: 0, or the empty
\* string (the string of number 0).
C9_Sentinel(type) == IF type = "string" THEN StrV(0) ELSE IntV(0)

\* C9: a left or full outer join has one row per left row without a match,
\* with the sentinel in the right table's columns; a right or full outer
\* join has one row per right row that matched no left row, with the
\* sentinel in the left table's columns, after all other rows and in the
\* right table's order.
C9_SentinelFill ==
    (/\ last.op = "join_tables"
     /\ last.join_type \in {"left", "right", "full outer"}
     /\ last.left_table \in DOMAIN tables /\ last.right_table \in DOMAIN tables
     /\ Len(last.left_keys) = Len(last.right_keys)
     /\ \A k \in DOMAIN last.left_keys :
           /\ HasColumn(tables[last.left_table], last.left_keys[k])
           /\ HasColumn(tables[last.right_table], last.right_keys[k])
     /\ tables[last.left_table].num_rows > 0
     /\ tables[last.right_table].num_rows > 0
     /\ \A k \in DOMAIN last.left_keys :
           Column(tables[last.left_table], last.left_keys[k]).type
               = Column(tables[last.right_table], last.right_keys[k]).type)
    => LET left == tables[last.left_table]
           right == tables[last.right_table]
           pairs == Cardinality(C8_Pairs(left, right, last.left_keys, last.right_keys))
           UL == C8_UnmatchedLeft(left, right, last.left_keys, last.right_keys)
           UR == C8_UnmatchedRight(left, right, last.left_keys, last.right_keys)
           rows == pairs
                   + (IF last.join_type \in {"left", "full outer"} THEN Cardinality(UL) ELSE 0)
                   + (IF last.join_type \in {"right", "full outer"} THEN Cardinality(UR) ELSE 0)
           \* the k-th right row without a match
           NthRight(k) == CHOOSE j \in UR : Cardinality({m \in UR : m < j}) = k - 1
       IN /\ last.status = "ok"
          /\ \A c \in DOMAIN last.result :
                /\ Len(last.result[c].values) = rows
                /\ \A r \in 1..rows : last.result[c].values[r] # Null
          /\ last.join_type \in {"right", "full outer"} =>
                \A k \in 1..Cardinality(UR), c \in DOMAIN last.result :
                    LET cell == last.result[c].values[rows - Cardinality(UR) + k]
                        name == last.result[c].name
                    IN IF HasColumn(right, name) /\ name \notin Range(last.right_keys)
                       THEN cell = Column(right, name).values[NthRight(k)]
                       ELSE IF HasColumn(left, name) /\ name \notin Range(last.left_keys)
                       THEN cell = C9_Sentinel(Column(left, name).type)
                       ELSE TRUE

=============================================================================
